---- MODULE Spec2Model ----
(***************************************************************************)
(* Model of the unified multi-backend local-LLM router                     *)
(* (mcp/llm/unified_manager.py) and of the two backend clients it owns     *)
(* (mcp/llm/client.py, mcp/llm/lmstudio_client.py).                        *)
(*                                                                         *)
(* The router is an asyncio object: coroutines interleave only where one   *)
(* of them suspends, that is while it waits for the lock or for an HTTP    *)
(* response.  Every action below is one such atomic block: it takes one    *)
(* input (the call, or the backend's answer) and runs the code up to the   *)
(* next suspension point.                                                  *)
(*                                                                         *)
(* Strings the code slices or compares by prefix (model names) are         *)
(* sequences of one-character strings; enum values are TLA+ strings.       *)
(***************************************************************************)
EXTENDS Naturals, Sequences, FiniteSets

(***************************************************************************)
(* Bounds and input domains                                                *)
(***************************************************************************)

\* Router calls started in one behaviour of Spec, of SpecSeq, of
\* SpecCatalog, of SpecWire, of SpecGate and of SpecLive.
MaxCalls == 3
MaxSeqCalls == 3
MaxCatalogCalls == 4
MaxWireCalls == 2
MaxGateCalls == 2
MaxLiveCalls == 2

\* The history counters of probes and refreshes stop counting here.
CountCap == 2

\* Coroutines that call the router: in Spec, in SpecInit (concurrent
\* initialize() only) and in SpecSeq (one caller, one call after the other).
Callers == {1, 2}
InitCallers == {1, 2, 3}
SeqCallers == {1}
AllCallers == Callers \cup InitCallers \cup SeqCallers

\* Model names as sequences of characters.
N_llama2 == <<"l", "l", "a", "m", "a", "2">>
N_x == <<"x">>
N_ollama == <<"o", "l", "l", "a", "m", "a">>
N_lmstudio == <<"l", "m", "s", "t", "u", "d", "i", "o">>
Colon == <<":">>

\* Names backends give their models: Ollama's carry a tag after a colon, and
\* a name may hold the text "lmstudio" or, in any case, "deepseek".
N_tagged == N_llama2 \o <<":", "7", "b">>
N_community == N_lmstudio \o <<"/", "m">>
N_DeepSeek == <<"D", "e", "e", "p", "S", "e", "e", "k">>

\* What a backend's model-listing endpoint may answer: a list of bare names.
\* CatalogLists is the richer choice of SpecCatalog.
CatalogLists ==
    [ollama |-> {<<>>, <<N_tagged>>, <<N_tagged, N_community>>},
     lmstudio |-> {<<>>, <<N_x>>, <<N_x, N_DeepSeek>>}]
BackendLists ==
    [ollama |-> {<<>>, <<N_llama2>>}, lmstudio |-> {<<>>, <<N_x>>}]

\* Names without a recognised "<backend>:" prefix.  "ollama" lacks the
\* separator, "x:x" has an unknown prefix and "Ollama:x" differs in case.
BareNames ==
    {N_llama2, N_x, <<>>, N_ollama, N_x \o Colon \o N_x,
     <<"O">> \o Tail(N_ollama) \o Colon \o N_x}

\* Names with a recognised prefix, as <<backend, bare name>>.
PrefixedNames ==
    ({"ollama"} \X {N_llama2, <<>>, N_lmstudio \o Colon \o N_x})
        \cup ({"lmstudio"} \X {N_x, N_ollama \o Colon})

\* Names a caller may pass as model_name: in SpecSeq, and in Spec.
SeqCallNames ==
    BareNames \cup
        {(IF p[1] = "ollama" THEN N_ollama ELSE N_lmstudio) \o Colon \o p[2] :
            p \in PrefixedNames}
CallNames ==
    {N_x, N_ollama \o Colon \o N_llama2, N_lmstudio \o Colon \o N_x}

(***************************************************************************)
(* LLMServiceType and the fixed order in which the code visits backends    *)
(***************************************************************************)

OLLAMA == "ollama"
LMSTUDIO == "lmstudio"
AUTO == "auto"
LLMServiceType == {OLLAMA, LMSTUDIO, AUTO}

\* The order of the two blocks in _check_service_availability,
\* _refresh_all_models and health_check.
Backends == <<OLLAMA, LMSTUDIO>>
BackendSet == {OLLAMA, LMSTUDIO}

\* LLMServiceType.value as a character sequence.
ServiceValue(service) ==
    CASE service = OLLAMA -> N_ollama
      [] service = LMSTUDIO -> N_lmstudio
      [] OTHER -> <<"a", "u", "t", "o">>

(***************************************************************************)
(* Python built-ins the code relies on                                     *)
(***************************************************************************)

\* str.startswith
StartsWith(s, prefix) ==
    Len(s) >= Len(prefix) /\ SubSeq(s, 1, Len(prefix)) = prefix

\* s[n:]
SliceFrom(s, n) == SubSeq(s, n + 1, Len(s))

\* sub in s
Contains(s, sub) ==
    \E i \in 1..(Len(s) + 1) :
        i + Len(sub) - 1 <= Len(s) /\ SubSeq(s, i, i + Len(sub) - 1) = sub

\* str.lower
UpperCase ==
    <<"A", "B", "C", "D", "E", "F", "G", "H", "I", "J", "K", "L", "M",
      "N", "O", "P", "Q", "R", "S", "T", "U", "V", "W", "X", "Y", "Z">>
LowerCase ==
    <<"a", "b", "c", "d", "e", "f", "g", "h", "i", "j", "k", "l", "m",
      "n", "o", "p", "q", "r", "s", "t", "u", "v", "w", "x", "y", "z">>
Lower(s) ==
    [i \in 1..Len(s) |->
        IF \E n \in 1..Len(UpperCase) : UpperCase[n] = s[i]
        THEN LowerCase[CHOOSE n \in 1..Len(UpperCase) : UpperCase[n] = s[i]]
        ELSE s[i]]

\* A dict is a sequence of <<key, value>> pairs in insertion order.
DictHas(d, k) == \E i \in 1..Len(d) : d[i][1] = k

\* d.get(k, default)
DictGet(d, k, default) ==
    IF DictHas(d, k)
    THEN d[CHOOSE i \in 1..Len(d) : d[i][1] = k][2]
    ELSE default

\* d[k] = v : an existing key keeps its place, a new key goes last.
DictSet(d, k, v) ==
    IF DictHas(d, k)
    THEN [i \in 1..Len(d) |-> IF d[i][1] = k THEN <<k, v>> ELSE d[i]]
    ELSE Append(d, <<k, v>>)

(***************************************************************************)
(* UnifiedModelManager._parse_model_name                                   *)
(***************************************************************************)

OllamaPrefix == <<"o", "l", "l", "a", "m", "a", ":">>
LMStudioPrefix == <<"l", "m", "s", "t", "u", "d", "i", "o", ":">>
OllamaPrefixLen == 7
LMStudioPrefixLen == 9

\* Variant: the last available service of the snapshot instead of the first.
LastAvailable(av) ==
    LET hits == {i \in 1..Len(av) : av[i][2] /\ av[i][1] # AUTO}
    IN  IF hits = {} THEN 0 ELSE CHOOSE i \in hits : \A j \in hits : i >= j

\* The first service of the snapshot, in dict order, that is available.
FirstAvailable(av) ==
    LET hits == {i \in 1..Len(av) : av[i][2] /\ av[i][1] # AUTO}
    IN  IF hits = {} THEN 0 ELSE CHOOSE i \in hits : \A j \in hits : i <= j

Resolved(service, name) == [ok |-> TRUE, service |-> service, name |-> name]
NoService == [ok |-> FALSE, service |-> "-", name |-> <<>>]

\* Variant: a preferred service wins over the prefix of the name.
ParsePreferredFirst(model_name, preferred, av) ==
    IF preferred # AUTO
    THEN Resolved(preferred, model_name)
    ELSE IF StartsWith(model_name, OllamaPrefix)
    THEN Resolved(OLLAMA, SliceFrom(model_name, OllamaPrefixLen))
    ELSE IF StartsWith(model_name, LMStudioPrefix)
    THEN Resolved(LMSTUDIO, SliceFrom(model_name, LMStudioPrefixLen))
    ELSE IF FirstAvailable(av) # 0
    THEN Resolved(av[FirstAvailable(av)][1], model_name)
    ELSE NoService

\* Variant: a preferred service is honoured only while the snapshot marks it
\* available, otherwise the first available service is selected.
ParsePreferredIfAvailable(model_name, preferred, av) ==
    IF StartsWith(model_name, OllamaPrefix)
    THEN Resolved(OLLAMA, SliceFrom(model_name, OllamaPrefixLen))
    ELSE IF StartsWith(model_name, LMStudioPrefix)
    THEN Resolved(LMSTUDIO, SliceFrom(model_name, LMStudioPrefixLen))
    ELSE IF preferred # AUTO /\ DictGet(av, preferred, FALSE)
    THEN Resolved(preferred, model_name)
    ELSE IF FirstAvailable(av) # 0
    THEN Resolved(av[FirstAvailable(av)][1], model_name)
    ELSE NoService

ParseModelName(model_name, preferred, av) ==
    IF StartsWith(model_name, OllamaPrefix)
    THEN Resolved(OLLAMA, SliceFrom(model_name, OllamaPrefixLen))
    ELSE IF StartsWith(model_name, LMStudioPrefix)
    THEN Resolved(LMSTUDIO, SliceFrom(model_name, LMStudioPrefixLen))
    ELSE IF preferred # AUTO
    THEN Resolved(preferred, model_name)
    ELSE IF FirstAvailable(av) # 0
    THEN Resolved(av[FirstAvailable(av)][1], model_name)
    ELSE NoService

(***************************************************************************)
(* State                                                                   *)
(***************************************************************************)

VARIABLES
    preferred_service,   \* UnifiedModelManager.preferred_service
    initialized,         \* _initialized
    lock_holder,         \* _lock: the caller inside `async with self._lock`, or 0
    lock_waiters,        \* _lock: callers suspended in acquire(), first come first
    client,              \* _ollama_client / _lmstudio_client: an object, 0 for None
    session,             \* per backend and client object, its _session
    available_services,  \* _available_services (dict, insertion ordered)
    service_models,      \* _service_models (dict, insertion ordered)
    model_cache,         \* _model_cache, its keys
    pc,                  \* where each caller is suspended
    call,                \* the router call each caller is in
    service_type,        \* generate_text/chat local
    actual_name,         \* generate_text/chat local
    cl,                  \* the client object an `async with` was entered on
    health_status,       \* health_check local
    ret,                 \* what the call returned or raised
    http,                \* the generate/chat HTTP request the call has sent
    sent,                \* history: the backend requests the call has sent
    probes,              \* history: client.health_check calls of initialize
    refreshes,           \* history: list_models calls of _refresh_all_models
    calls,               \* history: calls started
    reply                \* history: the backend answer the last step handled

vars ==
    <<preferred_service, initialized, lock_holder, lock_waiters, client,
      session, available_services, service_models, model_cache, pc, call,
      service_type, actual_name, cl, health_status, ret, http, sent, probes,
      refreshes, calls, reply>>

Idle == <<"idle", 0>>
Done == <<"done", 0>>
NoResult == [tag |-> "-", val |-> <<>>]
Returned == <<"ret", 0>>
NoArgs == [prompt |-> "", messages |-> <<>>, options |-> <<>>]
CallOf(op, name, refresh, args) ==
    [op |-> op, name |-> name, refresh |-> refresh, prompt |-> args.prompt,
     messages |-> args.messages, options |-> args.options]
NoCall == CallOf("-", <<>>, FALSE, NoArgs)
NoRequest == [endpoint |-> "-", json |-> <<>>]
NoAnswer ==
    [caller |-> 0, kind |-> "-", backend |-> "-", out |-> "-", models |-> <<>>]
Answer(c, kind, b, out, models) ==
    [caller |-> c, kind |-> kind, backend |-> b, out |-> out, models |-> models]

\* Client objects are told apart by a slot number; a slot is free until an
\* object is constructed in it and again once the object is destroyed.
Slots == 1..(Cardinality(AllCallers) + 1)

\* The router and caller state as one value, so that a block of straight-line
\* code is a composition of functions on it.
Cur ==
    [init |-> initialized, holder |-> lock_holder, waiters |-> lock_waiters,
     client |-> client, session |-> session, avail |-> available_services,
     models |-> service_models, cache |-> model_cache, pc |-> pc,
     call |-> call, svc |-> service_type, actual |-> actual_name, cl |-> cl,
     hs |-> health_status, ret |-> ret, http |-> http, sent |-> sent,
     probes |-> probes, refreshes |-> refreshes]

\* Whether a suspended caller holds client object g of backend b.
Holds(s, c, b, g) ==
    /\ s.cl[c] = g
    /\ \/ s.pc[c][1] \in {"lrefresh", "hc"} /\ Backends[s.pc[c][2]] = b
       \/ s.pc[c][1] = "dispatch" /\ s.svc[c] = b

\* __del__: a client object nothing refers to any more is destroyed.
Collect(s) ==
    [b \in BackendSet |->
        [g \in Slots |->
            IF g = s.client[b] \/ \E c \in AllCallers : Holds(s, c, b, g)
            THEN s.session[b][g]
            ELSE "free"]]

Commit(s) ==
    /\ initialized' = s.init
    /\ lock_holder' = s.holder
    /\ lock_waiters' = s.waiters
    /\ client' = s.client
    /\ session' = Collect(s)
    /\ available_services' = s.avail
    /\ service_models' = s.models
    /\ model_cache' = s.cache
    /\ pc' = s.pc
    /\ call' = s.call
    /\ service_type' = s.svc
    /\ actual_name' = s.actual
    /\ cl' = s.cl
    /\ health_status' = s.hs
    /\ ret' = s.ret
    /\ http' = s.http
    /\ sent' = s.sent
    /\ probes' = s.probes
    /\ refreshes' = s.refreshes

\* A call returns (tag "ok") or raises (any other tag).
Finish(s, c, tag, val) ==
    [s EXCEPT !.pc[c] = Done, !.cl[c] = 0, !.hs[c] = <<>>,
              !.ret[c] = [tag |-> tag, val |-> val]]

(***************************************************************************)
(* OllamaClient / LMStudioClient: the transport session                    *)
(***************************************************************************)

\* OllamaClient() / LMStudioClient(): a new object, its _session None.
NewClient(s, b) ==
    LET g == CHOOSE n \in Slots :
                /\ s.session[b][n] = "free"
                /\ \A m \in Slots : s.session[b][m] = "free" => n <= m
    IN  [s EXCEPT !.client[b] = g, !.session[b][g] = "none"]

EnsureSession(ss, b, g) ==
    IF ss[b][g] # "open" THEN [ss EXCEPT ![b][g] = "open"] ELSE ss

CloseSession(ss, b, g) ==
    IF ss[b][g] = "open" THEN [ss EXCEPT ![b][g] = "closed"] ELSE ss

\* _request up to its suspension: the session is ensured and the request sent.
SendRequest(s, c, b, g, kind) ==
    [s EXCEPT !.session = EnsureSession(@, b, g),
              !.sent[c] = Append(@, <<kind, b>>)]

\* __aexit__ of `async with client`
ExitClient(s, b, g) == [s EXCEPT !.session = CloseSession(@, b, g)]

(***************************************************************************)
(* GenerateRequest, ChatRequest and the HTTP requests the clients make of  *)
(* them.  An optional value is <<>> for None and <<v>> for the value v; a  *)
(* JSON object with free keys is a dict, one with fixed keys a record.     *)
(***************************************************************************)

ChatMessage(role, content) == [role |-> role, content |-> content]

GenerateRequest(model, prompt, options) ==
    [model |-> model, prompt |-> prompt, stream |-> FALSE, context |-> <<>>,
     options |-> options]

ChatRequest(model, messages, options) ==
    [model |-> model, messages |-> messages, stream |-> FALSE,
     options |-> options]

\* `if request.options:` and `if request.context:` : None and an empty
\* container are false.
Truthy(opt) == opt # <<>> /\ opt[1] # <<>>

\* [{"role": msg.role, "content": msg.content} for msg in request.messages]
MessagesJson(messages) ==
    [i \in 1..Len(messages) |->
        [role |-> messages[i].role, content |-> messages[i].content]]

\* OllamaClient.generate up to _request
OllamaGenerate(request) ==
    [endpoint |-> "/api/generate",
     json |-> <<<<"model", request.model>>, <<"prompt", request.prompt>>,
                <<"stream", FALSE>>>>
              \o (IF Truthy(request.context)
                  THEN <<<<"context", request.context[1]>>>> ELSE <<>>)
              \o (IF Truthy(request.options)
                  THEN <<<<"options", request.options[1]>>>> ELSE <<>>)]

\* OllamaClient.chat up to _request
OllamaChat(request) ==
    [endpoint |-> "/api/chat",
     json |-> <<<<"model", request.model>>,
                <<"messages", MessagesJson(request.messages)>>,
                <<"stream", FALSE>>>>
              \o (IF Truthy(request.options)
                  THEN <<<<"options", request.options[1]>>>> ELSE <<>>)]

\* Variant of the allow-list: every key the caller may pass is forwarded.
LMStudioOptionKeysOpen ==
    {"temperature", "max_tokens", "top_p", "frequency_penalty",
     "unsupported_key", "stream", "model"}

\* The option keys LMStudioClient.chat forwards.
LMStudioOptionKeys == {"temperature", "max_tokens", "top_p", "frequency_penalty"}

\* for key, value in request.options.items(): if key in [...]: data[key] = value
ForwardOptions(data, options) ==
    LET F[i \in 0..Len(options)] ==
            IF i = 0 THEN data
            ELSE IF options[i][1] \in LMStudioOptionKeys
            THEN DictSet(F[i - 1], options[i][1], options[i][2])
            ELSE F[i - 1]
    IN  F[Len(options)]

\* LMStudioClient.chat: the request body
LMStudioChatData(request) ==
    LET data == <<<<"model", request.model>>,
                  <<"messages", MessagesJson(request.messages)>>,
                  <<"stream", FALSE>>,
                  <<"temperature", "0.7">>,
                  <<"max_tokens", "-1">>>>
    IN  IF Truthy(request.options)
        THEN ForwardOptions(data, request.options[1])
        ELSE data

\* LMStudioClient.chat up to _request
LMStudioChat(request) ==
    [endpoint |-> "/v1/chat/completions", json |-> LMStudioChatData(request)]

\* Variant: generate passes the prompt on as a system message.
LMStudioGenerateAsSystem(request) ==
    LMStudioChat(ChatRequest(request.model,
                             <<ChatMessage("system", request.prompt)>>,
                             request.options))

\* LMStudioClient.generate: the request becomes a chat request of one user
\* message, which chat() sends.
LMStudioGenerate(request) ==
    LMStudioChat(ChatRequest(request.model,
                             <<ChatMessage("user", request.prompt)>>,
                             request.options))

\* generate_text / chat: the request object built from the arguments and the
\* client method it is given to.
ClientRequest(service, k, actual) ==
    IF k.op = "generate_text"
    THEN LET request == GenerateRequest(actual, k.prompt, k.options)
         IN  IF service = "ollama" THEN OllamaGenerate(request)
             ELSE LMStudioGenerate(request)
    ELSE LET request == ChatRequest(actual, k.messages, k.options)
         IN  IF service = "ollama" THEN OllamaChat(request)
             ELSE LMStudioChat(request)

\* _request: a connection error and a status other than 200 raise.
RequestRaises(h) == h.status # "200"

\* generate / chat after _request: the completion text is read out of the
\* JSON document into LLMResponse.content; a document that lacks a field
\* read with [] raises KeyError, and every exception leaves the method as
\* MCPLLMError.
ClientResponse(h) ==
    IF RequestRaises(h) \/ ~h.complete
    THEN [ok |-> FALSE, response |-> <<>>]
    ELSE [ok |-> TRUE, response |-> [content |-> h.content]]

(***************************************************************************)
(* UnifiedModelManager                                                     *)
(***************************************************************************)

Release(s) == [s EXCEPT !.holder = 0]

Count(n) == IF n < CountCap THEN n + 1 ELSE n

PrefixFor(b) == IF b = OLLAMA THEN OllamaPrefix ELSE LMStudioPrefix

\* Variant: the names are stored as the backend gave them.
Unprefixed(b, models) == models

\* Variant: the prefix is put in front of the names twice.
PrefixedTwice(b, models) ==
    [i \in 1..Len(models) |-> PrefixFor(b) \o PrefixFor(b) \o models[i]]

\* model.name = f"<backend>:{model.name}" for every model of the list
Prefixed(b, models) == [i \in 1..Len(models) |-> PrefixFor(b) \o models[i]]

\* all_models: the lists of _service_models.values(), concatenated
Flatten(models) ==
    LET F[i \in 0..Len(models)] ==
            IF i = 0 THEN <<>> ELSE F[i - 1] \o models[i][2]
    IN  F[Len(models)]

\* _check_service_availability, block i up to its suspension:
\* client.health_check() -> list_models() -> _request (no `async with`).
StartProbe(s, c, i) ==
    [SendRequest(s, c, Backends[i], s.client[Backends[i]], "health_check")
        EXCEPT !.pc[c] = <<"probe", i>>,
               !.probes[Backends[i]] = Count(@)]

\* _refresh_all_models from block i on, up to the next suspension: the first
\* backend marked available is entered (`async with`) and asked for its
\* models; with none left the function returns.
RefreshAllModels(s, c, i, at) ==
    LET todo == {j \in i..Len(Backends) : DictGet(s.avail, Backends[j], FALSE)}
        j == CHOOSE n \in todo : \A m \in todo : n <= m
        b == Backends[j]
    IN  IF todo = {}
        THEN [s EXCEPT !.pc[c] = Returned]
        ELSE [SendRequest(s, c, b, s.client[b], "list_models")
                EXCEPT !.pc[c] = <<at, j>>,
                       !.cl[c] = s.client[b],
                       !.refreshes[b] = Count(@)]

\* Variant of the gate: the service only has to have an entry in the snapshot.
ServiceKnown(av, service) == DictHas(av, service)

\* The availability gate of generate_text and chat.
ServiceAvailable(av, service) == DictGet(av, service, FALSE)

\* generate_text / chat after the initialisation check, up to the suspension.
Dispatch(s, c) ==
    LET k == s.call[c]
        r == ParseModelName(k.name, preferred_service, s.avail)
        t == [s EXCEPT !.svc[c] = r.service, !.actual[c] = r.name]
        g == s.client[r.service]
    IN  IF ~r.ok THEN Finish(s, c, "no_service", <<>>)
        ELSE IF ~ServiceAvailable(s.avail, r.service)
        THEN Finish(t, c, "unavailable", <<>>)
        ELSE [SendRequest(t, c, r.service, g, k.op)
                EXCEPT !.cache = @ \cup {k.name},
                       !.cl[c] = g,
                       !.http[c] = ClientRequest(r.service, k, r.name),
                       !.pc[c] = <<"dispatch", 0>>]

\* list_models: the return value
ListModelsReturn(s, c) == Finish(s, c, "ok", Flatten(s.models))

\* The keys of health_status: the literals "ollama" and "lmstudio".
HealthKey(b) == IF b = OLLAMA THEN N_ollama ELSE N_lmstudio

\* health_check from block i on, up to the next suspension.
HealthCheckFrom(s, c, i) ==
    LET todo == {j \in i..Len(Backends) : s.client[Backends[j]] # 0}
        j == CHOOSE n \in todo : \A m \in todo : n <= m
        b == Backends[j]
    IN  IF todo = {}
        THEN Finish(s, c, "ok", s.hs[c])
        ELSE [SendRequest(s, c, b, s.client[b], "health_check")
                EXCEPT !.pc[c] = <<"hc", j>>, !.cl[c] = s.client[b]]

\* get_available_services: the return value, a dict built from the snapshot
\* with service.value as key and without an entry for AUTO.
ServicesView(av) ==
    LET kept == SelectSeq(av, LAMBDA e : e[1] # AUTO)
    IN  [i \in 1..Len(kept) |-> <<ServiceValue(kept[i][1]), kept[i][2]>>]

\* Variant: get_available_services probes the backends as health_check does.
GetAvailableServicesProbing(s, c) == HealthCheckFrom(s, c, 1)

GetAvailableServices(s, c) == Finish(s, c, "ok", ServicesView(s.avail))

\* get_recommended_model on the result of list_models(): <<>> stands for
\* None and <<name>> for a name.
N_deepseek == Lower(N_DeepSeek)

\* Variant: without a match for "lmstudio" nothing is recommended.
RecommendedLMStudioOnly(all_models) ==
    LET deepseek == {i \in 1..Len(all_models) :
                        /\ Contains(all_models[i], N_lmstudio)
                        /\ Contains(Lower(all_models[i]), N_deepseek)}
        lmstudio == {i \in 1..Len(all_models) :
                        Contains(all_models[i], N_lmstudio)}
        First(hits) == CHOOSE i \in hits : \A j \in hits : i <= j
    IN  IF all_models = <<>> THEN <<>>
        ELSE IF deepseek # {} THEN <<all_models[First(deepseek)]>>
        ELSE IF lmstudio # {} THEN <<all_models[First(lmstudio)]>>
        ELSE <<>>

RecommendedModel(all_models) ==
    LET deepseek == {i \in 1..Len(all_models) :
                        /\ Contains(all_models[i], N_lmstudio)
                        /\ Contains(Lower(all_models[i]), N_deepseek)}
        lmstudio == {i \in 1..Len(all_models) :
                        Contains(all_models[i], N_lmstudio)}
        First(hits) == CHOOSE i \in hits : \A j \in hits : i <= j
    IN  IF all_models = <<>> THEN <<>>
        ELSE IF deepseek # {} THEN <<all_models[First(deepseek)]>>
        ELSE IF lmstudio # {} THEN <<all_models[First(lmstudio)]>>
        ELSE <<all_models[1]>>

GetRecommendedModel(s, c) ==
    Finish(s, c, "ok", RecommendedModel(Flatten(s.models)))

\* get_model_info after the initialisation check: the first model of the
\* resolved service whose cataloged name contains the resolved name, or None.
GetModelInfo(s, c) ==
    LET r == ParseModelName(s.call[c].name, preferred_service, s.avail)
        t == [s EXCEPT !.svc[c] = r.service, !.actual[c] = r.name]
        listed == DictGet(s.models, r.service, <<>>)
        hits == {i \in 1..Len(listed) :
                    Contains(listed[i], r.name)}
    IN  IF ~r.ok THEN Finish(s, c, "no_service", <<>>)
        ELSE IF hits = {} THEN Finish(t, c, "ok", <<>>)
        ELSE Finish(t, c, "ok",
                    <<listed[CHOOSE i \in hits :
                                        \A j \in hits : i <= j]>>)

\* list_models after the initialisation check
ListModels(s, c) ==
    IF s.call[c].refresh
    THEN LET t == RefreshAllModels(s, c, 1, "lrefresh")
         IN  IF t.pc[c] = Returned THEN ListModelsReturn(t, c) ELSE t
    ELSE ListModelsReturn(s, c)

\* What a call does once `if not self._initialized: await self.initialize()`
\* is behind it.
AfterInitialize(s, c) ==
    CASE s.call[c].op = "initialize" -> Finish(s, c, "ok", <<>>)
      [] s.call[c].op = "list_models" -> ListModels(s, c)
      [] s.call[c].op \in {"generate_text", "chat"} -> Dispatch(s, c)
      [] s.call[c].op = "health_check" -> HealthCheckFrom(s, c, 1)
      [] s.call[c].op = "get_available_services" -> GetAvailableServices(s, c)
      [] s.call[c].op = "get_recommended_model" -> GetRecommendedModel(s, c)
      [] s.call[c].op = "get_model_info" -> GetModelInfo(s, c)

\* initialize: the end of the try block
InitializeSucceeded(s) == Release([s EXCEPT !.init = TRUE])

\* Variant of the except clause: the lock stays held.
InitializeFailedLocked(s, c) == Finish(s, c, "init_error", <<>>)

\* initialize: the except clause; MCPLLMError leaves `async with self._lock`
\* and the call that awaited initialize().
InitializeFailed(s, c) == Finish(Release(s), c, "init_error", <<>>)

\* initialize: _refresh_all_models and what follows it
InitializeRefresh(s, c, i) ==
    LET t == RefreshAllModels(s, c, i, "refresh")
    IN  IF t.pc[c] = Returned
        THEN AfterInitialize(InitializeSucceeded(t), c)
        ELSE t

\* Variant of the guard: initialize always runs.
NeverInitialized(s) == FALSE

\* The guard of initialize.
AlreadyInitialized(s) == s.init

\* Variant: _initialized is set before the probes are sent.
InitializeEarlyReady(s, c, ctor) ==
    IF AlreadyInitialized(s) THEN AfterInitialize(Release(s), c)
    ELSE IF ctor = OLLAMA THEN InitializeFailed(s, c)
    ELSE IF ctor = LMSTUDIO THEN InitializeFailed(NewClient(s, OLLAMA), c)
    ELSE StartProbe([NewClient(NewClient(s, OLLAMA), LMSTUDIO)
                        EXCEPT !.init = TRUE], c, 1)

\* initialize with the lock held.  ctor names the client constructor that
\* raises (get_config() raising MCPConfigurationError), "none" if neither.
InitializeLocked(s, c, ctor) ==
    IF AlreadyInitialized(s) THEN AfterInitialize(Release(s), c)
    ELSE IF ctor = OLLAMA THEN InitializeFailed(s, c)
    ELSE IF ctor = LMSTUDIO THEN InitializeFailed(NewClient(s, OLLAMA), c)
    ELSE StartProbe(NewClient(NewClient(s, OLLAMA), LMSTUDIO), c, 1)

\* Variant of the lock: no mutual exclusion.
LockAlwaysFree(s) == TRUE

\* `async with self._lock`: taken at once when free and nobody queues,
\* otherwise the caller suspends in acquire().
LockFree(s) == s.holder = 0 /\ s.waiters = <<>>

WaitForLock(s, c) ==
    [s EXCEPT !.waiters = Append(@, c), !.pc[c] = <<"lock_wait", 0>>]

Initialize(s, c, ctor) ==
    IF LockFree(s)
    THEN InitializeLocked([s EXCEPT !.holder = c], c, ctor)
    ELSE WaitForLock(s, c)

\* Variant of cleanup: the health snapshot is kept.
CleanupKeepsSnapshot(s, c) ==
    Finish(Release([s EXCEPT !.models = <<>>, !.cache = {}, !.init = FALSE]),
           c, "ok", <<>>)

\* cleanup with the lock held
CleanupLocked(s, c) ==
    Finish(Release([s EXCEPT !.models = <<>>, !.cache = {}, !.avail = <<>>,
                             !.init = FALSE]), c, "ok", <<>>)

Cleanup(s, c) ==
    IF LockFree(s)
    THEN CleanupLocked([s EXCEPT !.holder = c], c)
    ELSE WaitForLock(s, c)

\* A router call from its first line to its first suspension.
Enter(s, c, ctor) ==
    CASE s.call[c].op = "cleanup" -> Cleanup(s, c)
      [] s.call[c].op = "initialize" -> Initialize(s, c, ctor)
      [] OTHER -> IF s.init THEN AfterInitialize(s, c)
                  ELSE Initialize(s, c, ctor)

\* Variant of the probe: an exception of client.health_check() leaves
\* _check_service_availability and fails initialize.
OnProbeResponseRaises(s, c, outcome) ==
    LET i == s.pc[c][2]
        t == [s EXCEPT !.avail = DictSet(@, Backends[i], outcome = "true")]
    IN  IF outcome = "raise" THEN InitializeFailed(s, c)
        ELSE IF i < Len(Backends) THEN StartProbe(t, c, i + 1)
        ELSE InitializeRefresh(t, c, 1)

\* What `await client.health_check()` gives: True, False, or an exception,
\* which the except clause around it turns into False.
Healthy(outcome) == outcome = "true"

\* The answer to a probe of _check_service_availability arrives.
OnProbeResponse(s, c, outcome) ==
    LET i == s.pc[c][2]
        t == [s EXCEPT !.avail = DictSet(@, Backends[i], Healthy(outcome))]
    IN  IF i < Len(Backends) THEN StartProbe(t, c, i + 1)
        ELSE InitializeRefresh(t, c, 1)

\* Variant: on an exception the entry of the backend is left as it was.
StoreModelsKeep(s, b, g, answer) ==
    IF answer.ok
    THEN ExitClient(
            [s EXCEPT !.models = DictSet(@, b, Prefixed(b, answer.models))], b, g)
    ELSE ExitClient(s, b, g)

\* The answer to a list_models of _refresh_all_models arrives: the names are
\* prefixed and stored, or on an exception the entry becomes []; either way
\* the `async with` is left first.
StoreModels(s, b, g, answer) ==
    IF answer.ok
    THEN ExitClient(
            [s EXCEPT !.models = DictSet(@, b, Prefixed(b, answer.models))], b, g)
    ELSE [ExitClient(s, b, g) EXCEPT !.models = DictSet(@, b, <<>>)]

OnRefreshResponse(s, c, answer) ==
    LET i == s.pc[c][2]
        t == StoreModels(s, Backends[i], s.cl[c], answer)
    IN  IF s.pc[c][1] = "refresh"
        THEN InitializeRefresh(t, c, i + 1)
        ELSE LET u == RefreshAllModels(t, c, i + 1, "lrefresh")
             IN  IF u.pc[c] = Returned THEN ListModelsReturn(u, c) ELSE u

\* Variant: a failed request marks its backend unavailable in the snapshot.
OnDispatchResponseMarksDown(s, c, ok) ==
    LET t == ExitClient(s, s.svc[c], s.cl[c])
    IN  IF ok THEN Finish(t, c, "ok", <<>>)
        ELSE Finish([t EXCEPT !.avail = DictSet(@, s.svc[c], FALSE)],
                    c, "backend_error", <<>>)

\* Variant: a failed request is sent once more, to the other backend.
OnDispatchResponseFallback(s, c, ok) ==
    LET t == ExitClient(s, s.svc[c], s.cl[c])
        o == CHOOSE b \in BackendSet : b # s.svc[c]
        tried == SelectSeq(s.sent[c],
                           LAMBDA e : e[1] \in {"generate_text", "chat"})
    IN  IF ok THEN Finish(t, c, "ok", <<>>)
        ELSE IF Len(tried) < 2
        THEN [SendRequest(t, c, o, s.client[o], s.call[c].op)
                EXCEPT !.svc[c] = o, !.cl[c] = s.client[o]]
        ELSE Finish(t, c, "backend_error", <<>>)

\* The answer to the generate/chat request arrives.
OnDispatchResponse(s, c, ok) ==
    LET t == ExitClient(s, s.svc[c], s.cl[c])
    IN  IF ok THEN Finish(t, c, "ok", <<>>)
        ELSE Finish(t, c, "backend_error", <<>>)

\* The answer to the generate/chat request arrives as an HTTP reply: the
\* client method returns the response or raises, and generate_text / chat
\* returns that response as it is.
OnDispatchReply(s, c, h) ==
    LET r == ClientResponse(h)
        t == OnDispatchResponse(s, c, r.ok)
    IN  IF r.ok THEN [t EXCEPT !.ret[c].val = r.response] ELSE t

\* The answer to a probe of health_check arrives.
OnHealthResponse(s, c, outcome) ==
    LET i == s.pc[c][2]
        b == Backends[i]
        t == ExitClient(
                [s EXCEPT !.hs[c] = DictSet(@, HealthKey(b), Healthy(outcome))],
                b, s.cl[c])
    IN  HealthCheckFrom(t, c, i + 1)

(***************************************************************************)
(* Inputs                                                                  *)
(***************************************************************************)

\* The router calls a caller may make with the model names of `names`.
CallsWith(names) ==
    {CallOf(o, <<>>, FALSE, NoArgs) :
        o \in {"initialize", "cleanup", "health_check", "list_models",
               "get_available_services", "get_recommended_model"}}
        \cup {CallOf("list_models", <<>>, TRUE, NoArgs)}
        \cup {CallOf(o, n, FALSE, NoArgs) :
                o \in {"generate_text", "chat"}, n \in names}

InitializeCall == CallOf("initialize", <<>>, FALSE, NoArgs)

\* The calls that read or write the catalog.
CatalogCalls ==
    {k \in CallsWith({}) :
        k.op \in {"initialize", "cleanup", "list_models",
                  "get_recommended_model"}}

\* Every operation that initializes the router when it is not Ready, with
\* initialize and cleanup.
GateCalls == CallsWith({N_x}) \cup {CallOf("get_model_info", N_x, FALSE, NoArgs)}

\* What client.health_check() may do: return True or False, or raise.
HealthOutcomes == {"true", "false", "raise"}

\* Which client constructor raises in initialize.
CtorOutcomes == {"none", OLLAMA, LMSTUDIO}

\* What list_models of backend b may give: a list of models, or an exception.
AnswersFrom(lists, b) ==
    {[ok |-> TRUE, models |-> m] : m \in lists[b]}
        \cup {[ok |-> FALSE, models |-> <<>>]}
ListAnswers(b) == AnswersFrom(BackendLists, b)

\* The arguments of generate_text and chat: a prompt, a list of messages,
\* and options (None, an empty dict, or a dict of keys in and outside the
\* allow-list of LMStudioClient.chat, fixed fields of the body among them).
WirePrompts == {"", "hi"}
WireMessages ==
    {<<ChatMessage("user", "hi")>>,
     <<ChatMessage("system", "be brief"), ChatMessage("user", "hi")>>}
WireOptions ==
    {<<>>, <<<<>>>>,
     <<<<<<"temperature", "0.2">>>>>>,
     <<<<<<"unsupported_key", "1">>>>>>,
     <<<<<<"unsupported_key", "1">>, <<"temperature", "0.2">>>>>>,
     <<<<<<"top_p", "0.9">>, <<"stream", TRUE>>, <<"max_tokens", "64">>>>>>,
     <<<<<<"frequency_penalty", "0.5">>, <<"model", N_llama2>>>>>>}
WireNames == {N_ollama \o Colon \o N_llama2, N_lmstudio \o Colon \o N_x}
WireCalls ==
    {CallOf("generate_text", n, FALSE,
            [prompt |-> p, messages |-> <<>>, options |-> o]) :
        n \in WireNames, p \in WirePrompts, o \in WireOptions}
    \cup {CallOf("chat", n, FALSE,
                 [prompt |-> "", messages |-> m, options |-> o]) :
            n \in WireNames, m \in WireMessages, o \in WireOptions}

\* What the backend may answer to a generate or chat request: no connection,
\* an error status, a document that lacks a field, or a completion, whose
\* text may be empty.
WireReplies ==
    {[status |-> "conn", complete |-> FALSE, content |-> ""],
     [status |-> "500", complete |-> FALSE, content |-> ""],
     [status |-> "200", complete |-> FALSE, content |-> ""],
     [status |-> "200", complete |-> TRUE, content |-> ""],
     [status |-> "200", complete |-> TRUE, content |-> "hello"]}

(***************************************************************************)
(* Specification                                                           *)
(***************************************************************************)

\* UnifiedModelManager(preferred_service) for a preferred service of `prefs`.
Constructed(prefs) ==
    /\ preferred_service \in prefs
    /\ initialized = FALSE
    /\ lock_holder = 0
    /\ lock_waiters = <<>>
    /\ client = [b \in BackendSet |-> 0]
    /\ session = [b \in BackendSet |-> [g \in Slots |-> "free"]]
    /\ available_services = <<>>
    /\ service_models = <<>>
    /\ model_cache = {}
    /\ pc = [c \in AllCallers |-> Idle]
    /\ call = [c \in AllCallers |-> NoCall]
    /\ service_type = [c \in AllCallers |-> "-"]
    /\ actual_name = [c \in AllCallers |-> <<>>]
    /\ cl = [c \in AllCallers |-> 0]
    /\ health_status = [c \in AllCallers |-> <<>>]
    /\ ret = [c \in AllCallers |-> NoResult]
    /\ http = [c \in AllCallers |-> NoRequest]
    /\ sent = [c \in AllCallers |-> <<>>]
    /\ probes = [b \in BackendSet |-> 0]
    /\ refreshes = [b \in BackendSet |-> 0]
    /\ calls = 0
    /\ reply = NoAnswer

\* The router as constructed by default, and with any preferred service.
Init == Constructed({AUTO})
InitAny == Constructed(LLMServiceType)

\* No completed call waits to be observed.
Quiet == \A c \in AllCallers : pc[c] # Done

\* Caller c makes call k.
Begin(c, k, ctor) ==
    /\ Quiet
    /\ pc[c] = Idle
    /\ Commit(Enter([Cur EXCEPT !.call[c] = k], c, ctor))
    /\ reply' = NoAnswer
    /\ UNCHANGED preferred_service

Invoke(c) ==
    /\ calls < MaxCalls
    /\ calls' = calls + 1
    /\ \E k \in CallsWith(CallNames), ctor \in CtorOutcomes : Begin(c, k, ctor)

InvokeSeq(c) ==
    /\ calls < MaxSeqCalls
    /\ calls' = calls + 1
    /\ \E k \in CallsWith(SeqCallNames), ctor \in CtorOutcomes : Begin(c, k, ctor)

InvokeInitialize(c) ==
    /\ \E ctor \in CtorOutcomes : Begin(c, InitializeCall, ctor)
    /\ UNCHANGED calls

\* The lock is handed to the first waiter, which goes on inside the
\* `async with self._lock` of cleanup or of initialize.
Wake(c) ==
    /\ Quiet
    /\ pc[c] = <<"lock_wait", 0>>
    /\ lock_holder = 0
    /\ lock_waiters # <<>>
    /\ Head(lock_waiters) = c
    /\ LET s == [Cur EXCEPT !.holder = c, !.waiters = Tail(@)]
       IN  IF call[c].op = "cleanup"
           THEN Commit(CleanupLocked(s, c))
           ELSE \E ctor \in CtorOutcomes : Commit(InitializeLocked(s, c, ctor))
    /\ reply' = NoAnswer
    /\ UNCHANGED <<preferred_service, calls>>

ProbeResponse(c) ==
    /\ Quiet
    /\ pc[c][1] = "probe"
    /\ \E outcome \in HealthOutcomes :
        /\ Commit(OnProbeResponse(Cur, c, outcome))
        /\ reply' = Answer(c, "probe", Backends[pc[c][2]], outcome, <<>>)
    /\ UNCHANGED <<preferred_service, calls>>

RefreshResponseFrom(c, answers) ==
    /\ Quiet
    /\ pc[c][1] \in {"refresh", "lrefresh"}
    /\ \E a \in answers :
        /\ Commit(OnRefreshResponse(Cur, c, a))
        /\ reply' = Answer(c, "list", Backends[pc[c][2]],
                            IF a.ok THEN "ok" ELSE "error", a.models)
    /\ UNCHANGED <<preferred_service, calls>>

RefreshResponse(c) ==
    /\ pc[c][1] \in {"refresh", "lrefresh"}
    /\ RefreshResponseFrom(c, ListAnswers(Backends[pc[c][2]]))

RefreshResponseCatalog(c) ==
    /\ pc[c][1] \in {"refresh", "lrefresh"}
    /\ RefreshResponseFrom(c, AnswersFrom(CatalogLists, Backends[pc[c][2]]))

InvokeCatalog(c) ==
    /\ calls < MaxCatalogCalls
    /\ calls' = calls + 1
    /\ \E k \in CatalogCalls, ctor \in CtorOutcomes : Begin(c, k, ctor)

DispatchResponse(c) ==
    /\ Quiet
    /\ pc[c][1] = "dispatch"
    /\ \E ok \in BOOLEAN :
        /\ Commit(OnDispatchResponse(Cur, c, ok))
        /\ reply' = Answer(c, "dispatch", service_type[c],
                            IF ok THEN "ok" ELSE "error", <<>>)
    /\ UNCHANGED <<preferred_service, calls>>

HealthResponse(c) ==
    /\ Quiet
    /\ pc[c][1] = "hc"
    /\ \E outcome \in HealthOutcomes :
        /\ Commit(OnHealthResponse(Cur, c, outcome))
        /\ reply' = Answer(c, "health", Backends[pc[c][2]], outcome, <<>>)
    /\ UNCHANGED <<preferred_service, calls>>

\* The caller takes what its call returned or raised.  This comes before any
\* other block runs: it changes nothing the router or another coroutine
\* reads, so when it happens makes no difference to them, and every state
\* with a completed call in it is the state that call completed in.
Return(c) ==
    /\ pc[c] = Done
    /\ pc' = [pc EXCEPT ![c] = Idle]
    /\ call' = [call EXCEPT ![c] = NoCall]
    /\ service_type' = [service_type EXCEPT ![c] = "-"]
    /\ actual_name' = [actual_name EXCEPT ![c] = <<>>]
    /\ ret' = [ret EXCEPT ![c] = NoResult]
    /\ http' = [http EXCEPT ![c] = NoRequest]
    /\ sent' = [sent EXCEPT ![c] = <<>>]
    /\ reply' = NoAnswer
    /\ UNCHANGED <<preferred_service, initialized, lock_holder, lock_waiters,
                   client, session, available_services, service_models,
                   model_cache, cl, health_status, probes, refreshes, calls>>

InvokeWire(c) ==
    /\ calls < MaxWireCalls
    /\ calls' = calls + 1
    /\ \E k \in WireCalls, ctor \in CtorOutcomes : Begin(c, k, ctor)

DispatchReply(c) ==
    /\ Quiet
    /\ pc[c][1] = "dispatch"
    /\ \E h \in WireReplies :
        /\ Commit(OnDispatchReply(Cur, c, h))
        /\ reply' = Answer(c, "dispatch", service_type[c],
                            IF ClientResponse(h).ok THEN "ok" ELSE "error",
                            <<h>>)
    /\ UNCHANGED <<preferred_service, calls>>

InvokeGate(c) ==
    /\ calls < MaxGateCalls
    /\ calls' = calls + 1
    /\ \E k \in GateCalls, ctor \in CtorOutcomes : Begin(c, k, ctor)

InvokeLive(c) ==
    /\ calls < MaxLiveCalls
    /\ calls' = calls + 1
    /\ \E k \in CallsWith({N_x}), ctor \in CtorOutcomes : Begin(c, k, ctor)

\* Callers use the router concurrently.
Next ==
    \E c \in Callers :
        \/ Invoke(c)
        \/ Wake(c)
        \/ ProbeResponse(c)
        \/ RefreshResponse(c)
        \/ DispatchResponse(c)
        \/ HealthResponse(c)
        \/ Return(c)

Spec == Init /\ [][Next]_vars

\* Two callers use every operation that passes the initialisation check.
NextGate ==
    \E c \in Callers :
        \/ InvokeGate(c)
        \/ Wake(c)
        \/ ProbeResponse(c)
        \/ RefreshResponse(c)
        \/ DispatchResponse(c)
        \/ HealthResponse(c)
        \/ Return(c)

SpecGate == Init /\ [][NextGate]_vars

\* Two callers use the router concurrently, and while some coroutine can go
\* on, one of them does: the event loop runs a coroutine that is ready, the
\* lock wakes its first waiter, a backend request is answered or fails, and
\* a caller takes the result of its call.
NextLive ==
    \E c \in Callers :
        \/ InvokeLive(c)
        \/ Wake(c)
        \/ ProbeResponse(c)
        \/ RefreshResponse(c)
        \/ DispatchResponse(c)
        \/ HealthResponse(c)
        \/ Return(c)

Progress ==
    \E c \in Callers :
        \/ Wake(c)
        \/ ProbeResponse(c)
        \/ RefreshResponse(c)
        \/ DispatchResponse(c)
        \/ HealthResponse(c)
        \/ Return(c)

\* ENABLED <<Progress>>_vars as a state predicate: a call has completed and
\* waits to be taken, or a request is in flight, or the lock is free and has
\* a waiter.
CanProgress ==
    \E c \in Callers :
        \/ pc[c] = Done
        \/ /\ Quiet
           /\ \/ pc[c][1] \in {"probe", "refresh", "lrefresh", "dispatch", "hc"}
              \/ /\ pc[c] = <<"lock_wait", 0>>
                 /\ lock_holder = 0
                 /\ lock_waiters # <<>>
                 /\ Head(lock_waiters) = c

\* An invariant of SpecLive: CanProgress is the enabling condition.
CanProgressIsEnabled == CanProgress <=> ENABLED <<Progress>>_vars

\* WF_vars(Progress), with its enabling condition written as CanProgress.
Fairness == []<>(~CanProgress) \/ []<><<Progress>>_vars

SpecLive == Init /\ [][NextLive]_vars /\ Fairness

\* One caller makes one call after the other.
NextSeq ==
    \E c \in SeqCallers :
        \/ InvokeSeq(c)
        \/ ProbeResponse(c)
        \/ RefreshResponse(c)
        \/ DispatchResponse(c)
        \/ HealthResponse(c)
        \/ Return(c)

SpecSeq == InitAny /\ [][NextSeq]_vars

\* One caller fills, reads and clears the catalog.
NextCatalog ==
    \E c \in SeqCallers :
        \/ InvokeCatalog(c)
        \/ ProbeResponse(c)
        \/ RefreshResponseCatalog(c)
        \/ Return(c)

SpecCatalog == Init /\ [][NextCatalog]_vars

\* One caller makes generate_text and chat calls whose arguments and whose
\* replies are followed down to the HTTP request and the response.
NextWire ==
    \E c \in SeqCallers :
        \/ InvokeWire(c)
        \/ ProbeResponse(c)
        \/ RefreshResponse(c)
        \/ DispatchReply(c)
        \/ Return(c)

SpecWire == Init /\ [][NextWire]_vars

\* N callers invoke initialize() concurrently, and nothing else.
NextInit ==
    \E c \in InitCallers :
        \/ InvokeInitialize(c)
        \/ Wake(c)
        \/ ProbeResponse(c)
        \/ RefreshResponse(c)
        \/ Return(c)

SpecInit == Init /\ [][NextInit]_vars

(***************************************************************************)
(* Properties                                                              *)
(***************************************************************************)

LockWait == <<"lock_wait", 0>>

\* A step in which caller c's call returns or raises.
Completes(c) == pc[c] # Done /\ pc'[c] = Done

\* A step in which caller c runs the first block of its call that is not
\* the wait for the lock.
Proceeds(c) == pc[c] \in {Idle, LockWait} /\ pc'[c] \notin {Idle, LockWait}

\* The backend is marked available in a health snapshot, and in the current
\* one.
MarkedIn(av, b) == \E i \in 1..Len(av) : av[i] = <<b, TRUE>>
Marked(b) == MarkedIn(available_services, b)

\* The requests one run of initialize sends, given the snapshot it wrote.
ProbeAndRefresh ==
    <<<<"health_check", OLLAMA>>, <<"health_check", LMSTUDIO>>>>
        \o (IF Marked(OLLAMA) THEN <<<<"list_models", OLLAMA>>>> ELSE <<>>)
        \o (IF Marked(LMSTUDIO) THEN <<<<"list_models", LMSTUDIO>>>> ELSE <<>>)

\* C1: when several callers invoke initialize() concurrently on an
\* uninitialized router, one probe and refresh cycle is performed in total:
\* each backend is probed once and each backend that probed healthy is asked
\* for its models once, by one caller; every other caller returns without
\* having sent a request.
C1_SingleInitialization ==
    /\ \A b \in BackendSet :
        /\ probes[b] <= 1
        /\ refreshes[b] <= 1
        /\ initialized =>
            /\ probes[b] = 1
            /\ refreshes[b] = IF Marked(b) THEN 1 ELSE 0
    /\ \A c \in InitCallers :
        pc[c] = Done /\ ret[c].tag = "ok" =>
            /\ initialized
            /\ sent[c] \in {<<>>, ProbeAndRefresh}

\* The run of one caller has ended while the two other callers wait for the
\* lock.
C1_Witness ==
    \E c \in InitCallers :
        /\ pc[c] = Done
        /\ ret[c].tag = "ok"
        /\ sent[c] = ProbeAndRefresh
        /\ Len(lock_waiters) = 2

\* What a generate_text or chat call sends to its backend.
IsDispatch(request) == request[1] \in {"generate_text", "chat"}

\* C2: when the backend that generate_text/chat resolved for the model is not
\* marked healthy in the health snapshot, the call raises "Service ... is not
\* available" in the block that resolved the name, and that block sends no
\* request: the call never sends a generate or chat request, and on a Ready
\* router it sends nothing at all and touches no session.
C2_FailFast ==
    [][\A c \in SeqCallers :
        ( /\ call'[c].op \in {"generate_text", "chat"}
          /\ pc[c][1] \notin {"dispatch", "done"}
          /\ pc'[c][1] \in {"dispatch", "done"}
          /\ service_type'[c] \in BackendSet
          /\ ~MarkedIn(available_services', service_type'[c]) )
        => /\ pc'[c] = Done
           /\ ret'[c].tag = "unavailable"
           /\ sent'[c] = sent[c]
           /\ \A i \in 1..Len(sent'[c]) : ~IsDispatch(sent'[c][i])
           /\ pc[c] = Idle => sent'[c] = <<>> /\ session' = session
    ]_vars

\* A call on a Ready router was refused for a backend marked unhealthy while
\* the other backend is healthy, and nothing was sent.
C2_Witness ==
    \E c \in SeqCallers, b \in BackendSet :
        /\ pc[c] = Done
        /\ call[c].op \in {"generate_text", "chat"}
        /\ ret[c].tag = "unavailable"
        /\ service_type[c] = b
        /\ ~Marked(b)
        /\ \E o \in BackendSet \ {b} : Marked(o)
        /\ sent[c] = <<>>

\* C3: after cleanup() returns, no backend client owned by the router holds
\* an open session.
C3_CleanupClosesSessions ==
    \A c \in SeqCallers :
        pc[c] = Done /\ call[c].op = "cleanup" =>
            \A b \in BackendSet :
                client[b] # 0 => session[b][client[b]] # "open"

\* The catalog, the health snapshot and the usage map are empty and the
\* router is uninitialized.
Clean ==
    /\ service_models = <<>>
    /\ available_services = <<>>
    /\ model_cache = {}
    /\ ~initialized

\* C4: in whatever state cleanup() runs it returns normally, releases the
\* lock and leaves the catalog, the health snapshot and the usage map empty
\* and the router uninitialized; run in such a state it changes nothing.
C4_CleanupSafe ==
    [][\A c \in Callers :
        Completes(c) /\ call'[c].op = "cleanup" =>
            /\ ret'[c] = [tag |-> "ok", val |-> <<>>]
            /\ Clean'
            /\ lock_holder' = 0
            /\ Clean => UNCHANGED <<service_models, available_services,
                                    model_cache, initialized, client, session>>
    ]_vars

\* cleanup() has returned on a router that had been initialized before.
C4_Witness ==
    \E c \in Callers :
        /\ pc[c] = Done
        /\ call[c].op = "cleanup"
        /\ ret[c].tag = "ok"
        /\ \A b \in BackendSet : client[b] # 0
        /\ Clean

\* C5: initialize() on a router that is already Ready returns at once, sends
\* no health probe and no list_models request, and leaves the health
\* snapshot, the catalog and the backend clients as they were.
C5_InitializeIdempotent ==
    [][\A c \in Callers :
        Proceeds(c) /\ call'[c].op = "initialize" /\ initialized =>
            /\ pc'[c] = Done
            /\ ret'[c] = [tag |-> "ok", val |-> <<>>]
            /\ sent'[c] = <<>>
            /\ UNCHANGED <<initialized, available_services, service_models,
                           model_cache, client, session, probes, refreshes>>
    ]_vars

\* initialize() has returned on a Ready router that holds a catalog, without
\* having sent anything.
C5_Witness ==
    \E c \in Callers :
        /\ pc[c] = Done
        /\ call[c].op = "initialize"
        /\ ret[c].tag = "ok"
        /\ sent[c] = <<>>
        /\ initialized
        /\ Flatten(service_models) # <<>>

\* C6: a call that runs initialize() on an uninitialized router and ends
\* before any probe was answered has raised the initialization error, with
\* the router still uninitialized and the lock released; and whenever
\* initialize() gets the lock on an uninitialized router it either raises
\* that error or constructs both clients and sends the first probe, the
\* start of the whole sequence.
C6_InitFailureRetry ==
    [][\A c \in Callers :
        Proceeds(c) /\ call'[c].op # "cleanup" /\ ~initialized =>
            \/ /\ pc'[c] = Done
               /\ ret'[c].tag = "init_error"
               /\ ~initialized'
               /\ lock_holder' = 0
               /\ sent'[c] = <<>>
            \/ /\ pc'[c] = <<"probe", 1>>
               /\ lock_holder' = c
               /\ ~initialized'
               /\ \A b \in BackendSet :
                    client'[b] # 0 /\ client'[b] # client[b]
               /\ sent'[c] = <<<<"health_check", OLLAMA>>>>
    ]_vars

\* initialize() has raised after the first client was constructed, and the
\* router is uninitialized with its lock free.
C6_Witness ==
    \E c \in Callers :
        /\ pc[c] = Done
        /\ ret[c].tag = "init_error"
        /\ client[OLLAMA] # 0
        /\ ~initialized
        /\ lock_holder = 0
        /\ lock_waiters = <<>>

\* C7: when initialize() has completed, the catalog holds models only of
\* backends that the health snapshot written by that run marks healthy, so
\* list_models() returns no model of a backend that probed unhealthy.
C7_CatalogOnlyHealthy ==
    \A c \in Callers :
        pc[c] = Done /\ call[c].op = "initialize" /\ ret[c].tag = "ok" =>
            \A i \in 1..Len(service_models) :
                service_models[i][2] # <<>> => Marked(service_models[i][1])

\* The same statement for a single caller that makes one call after the other.
C7_CatalogOnlyHealthySeq ==
    \A c \in SeqCallers :
        pc[c] = Done /\ call[c].op = "initialize" /\ ret[c].tag = "ok" =>
            \A i \in 1..Len(service_models) :
                service_models[i][2] # <<>> => Marked(service_models[i][1])

\* The call of caller c has been through name resolution.
ResolutionDone(c) ==
    /\ call[c].op \in {"generate_text", "chat"}
    /\ pc[c][1] \in {"dispatch", "done"}
    /\ ret[c].tag # "init_error"

\* C8: a name "<backend>:<bare>" whose prefix is "ollama" or "lmstudio"
\* resolves to exactly (that backend, bare), for every preferred service and
\* every health snapshot.
C8_PrefixedResolution ==
    \A c \in SeqCallers, p \in PrefixedNames :
        ( /\ ResolutionDone(c)
          /\ call[c].name = ServiceValue(p[1]) \o Colon \o p[2] )
        => /\ service_type[c] = p[1]
           /\ actual_name[c] = p[2]
           /\ ret[c].tag # "no_service"

\* "ollama:lmstudio:x" was resolved to (ollama, "lmstudio:x") on a router
\* that prefers LM Studio and whose snapshot marks Ollama unhealthy.
C8_Witness ==
    \E c \in SeqCallers :
        /\ pc[c] = Done
        /\ call[c].name = N_ollama \o Colon \o N_lmstudio \o Colon \o N_x
        /\ service_type[c] = OLLAMA
        /\ actual_name[c] = N_lmstudio \o Colon \o N_x
        /\ preferred_service = LMSTUDIO
        /\ ~Marked(OLLAMA)
        /\ Marked(LMSTUDIO)

\* C9: a name without a recognised prefix resolves, when the preferred
\* service is not Auto, to (preferred, name) with the name unchanged,
\* whatever the health snapshot and the catalog hold.
C9_PreferredResolution ==
    \A c \in SeqCallers :
        ( /\ ResolutionDone(c)
          /\ call[c].name \in BareNames
          /\ preferred_service # AUTO )
        => /\ service_type[c] = preferred_service
           /\ actual_name[c] = call[c].name
           /\ ret[c].tag # "no_service"

\* A bare name the catalog does not hold was resolved to the preferred
\* service although the snapshot marks only the other backend healthy.
C9_Witness ==
    \E c \in SeqCallers :
        /\ pc[c] = Done
        /\ call[c].op \in {"generate_text", "chat"}
        /\ call[c].name = N_x \o Colon \o N_x
        /\ preferred_service = OLLAMA
        /\ service_type[c] = OLLAMA
        /\ actual_name[c] = call[c].name
        /\ ~Marked(OLLAMA)
        /\ Marked(LMSTUDIO)

\* C10: a name without a recognised prefix resolves, when the preferred
\* service is Auto, to (b, name) where b is Ollama if the snapshot marks it
\* available and else LM Studio if the snapshot marks that available; the
\* backend is never Auto; and resolution raises "No available LLM service"
\* exactly when the snapshot marks no backend available.
C10_AutoResolution ==
    \A c \in SeqCallers :
        ( /\ ResolutionDone(c)
          /\ call[c].name \in BareNames
          /\ preferred_service = AUTO )
        => /\ service_type[c] # AUTO
           /\ ret[c].tag = "no_service" <=> ~Marked(OLLAMA) /\ ~Marked(LMSTUDIO)
           /\ Marked(OLLAMA) =>
                service_type[c] = OLLAMA /\ actual_name[c] = call[c].name
           /\ ~Marked(OLLAMA) /\ Marked(LMSTUDIO) =>
                service_type[c] = LMSTUDIO /\ actual_name[c] = call[c].name

\* With both backends marked available a bare name went to Ollama.
C10_Witness ==
    \E c \in SeqCallers :
        /\ pc[c] = Done
        /\ call[c].op \in {"generate_text", "chat"}
        /\ call[c].name = N_llama2
        /\ preferred_service = AUTO
        /\ Marked(OLLAMA)
        /\ Marked(LMSTUDIO)
        /\ service_type[c] = OLLAMA
        /\ actual_name[c] = N_llama2

\* The same key has the same entry, or none, in two dicts.
SameEntry(d, e, k) ==
    /\ DictHas(d, k) <=> DictHas(e, k)
    /\ DictGet(d, k, FALSE) = DictGet(e, k, FALSE)

\* C11: whatever a backend's health check does (returns True, returns False,
\* raises), the probe of initialize() and the router's health_check() record
\* True for it exactly when it returned True, leave the other backend's
\* entry as it is, go on to the other backend, and raise nothing.
C11_ProbeIndependent ==
    [][\A c \in SeqCallers, i \in 1..Len(Backends) :
        LET b == Backends[i]
            o == Backends[3 - i]
            result == IF pc'[c] = Done THEN ret'[c].val ELSE health_status'[c]
        IN  /\ pc[c] = <<"probe", i>> /\ pc'[c] # pc[c] =>
                /\ reply'.out \in HealthOutcomes
                /\ DictHas(available_services', b)
                /\ DictGet(available_services', b, FALSE)
                        = (reply'.out = "true")
                /\ SameEntry(available_services', available_services, o)
                /\ ret'[c].tag # "init_error"
                /\ i = 1 => pc'[c] = <<"probe", 2>>
            /\ pc[c] = <<"hc", i>> /\ pc'[c] # pc[c] =>
                /\ reply'.out \in HealthOutcomes
                /\ DictHas(result, HealthKey(b))
                /\ DictGet(result, HealthKey(b), FALSE) = (reply'.out = "true")
                /\ SameEntry(result, health_status[c], HealthKey(o))
                /\ pc'[c] = Done => ret'[c].tag = "ok"
                /\ i = 1 => pc'[c] = <<"hc", 2>>
    ]_vars

\* Ollama's health check raised inside health_check(): False is recorded for
\* it and LM Studio is being checked.
C11_Witness ==
    \E c \in SeqCallers :
        /\ pc[c] = <<"hc", 2>>
        /\ reply = Answer(c, "health", OLLAMA, "raise", <<>>)
        /\ health_status[c] = <<<<N_ollama, FALSE>>>>

\* C12: when health_check() has returned a result r on a Ready router, the
\* stored health snapshot equals r: it is what get_available_services()
\* returns.
C12_HealthCheckRefreshesSnapshot ==
    \A c \in SeqCallers :
        ( /\ pc[c] = Done
          /\ call[c].op = "health_check"
          /\ ret[c].tag = "ok"
          /\ initialized )
        => ServicesView(available_services) = ret[c].val

\* C13: get_available_services() on a Ready router returns at once the
\* entries of the health snapshot, keyed by the services' values; it sends
\* no request and leaves the snapshot, the catalog, the usage map, the
\* clients with their sessions and the initialized flag unchanged.
C13_ServicesNoRefresh ==
    [][\A c \in SeqCallers :
        ( /\ Proceeds(c)
          /\ call'[c].op = "get_available_services"
          /\ initialized )
        => /\ pc'[c] = Done
           /\ ret'[c].tag = "ok"
           /\ Len(ret'[c].val) = Len(available_services)
           /\ \A i \in 1..Len(available_services) :
                ret'[c].val[i] = <<ServiceValue(available_services[i][1]),
                                   available_services[i][2]>>
           /\ sent'[c] = <<>>
           /\ UNCHANGED <<initialized, available_services, service_models,
                          model_cache, client, session, lock_holder,
                          lock_waiters>>
    ]_vars

\* get_available_services() has returned a snapshot that marks one backend
\* healthy and the other not, without sending anything.
C13_Witness ==
    \E c \in SeqCallers :
        /\ pc[c] = Done
        /\ call[c].op = "get_available_services"
        /\ sent[c] = <<>>
        /\ ret[c].val = <<<<N_ollama, TRUE>>, <<N_lmstudio, FALSE>>>>
        /\ available_services = <<<<OLLAMA, TRUE>>, <<LMSTUDIO, FALSE>>>>

\* C14: a generate_text/chat call on a Ready router changes neither the
\* health snapshot nor the catalog, in the block that sends the request or
\* refuses it and in the block that handles the backend's answer; a backend
\* whose request failed keeps its entry.
C14_FailureKeepsSnapshot ==
    [][\A c \in SeqCallers :
        ( /\ call'[c].op \in {"generate_text", "chat"}
          /\ pc'[c] # pc[c]
          /\ \/ pc[c] = Idle /\ initialized
             \/ pc[c][1] = "dispatch" )
        => /\ UNCHANGED <<available_services, service_models, initialized>>
           /\ pc[c][1] = "dispatch" /\ reply'.out = "error" =>
                /\ pc'[c] = Done
                /\ ret'[c].tag = "backend_error"
                /\ Marked(service_type[c])
    ]_vars

\* A request failed and its backend is still marked healthy.
C14_Witness ==
    \E c \in SeqCallers :
        /\ pc[c] = Done
        /\ call[c].op \in {"generate_text", "chat"}
        /\ ret[c].tag = "backend_error"
        /\ reply = Answer(c, "dispatch", service_type[c], "error", <<>>)
        /\ Marked(service_type[c])

\* The generate or chat requests in a call's log.
DispatchesOf(log) == SelectSeq(log, IsDispatch)

\* C15: a generate_text/chat call sends at most one generate or chat
\* request, to the backend it resolved; the block that handles the answer
\* ends the call and sends nothing, and a failed request ends it with the
\* backend's error.
C15_NoRetryNoFallback ==
    [][\A c \in SeqCallers :
        /\ call'[c].op \in {"generate_text", "chat"} =>
            /\ Len(DispatchesOf(sent'[c])) <= 1
            /\ \A i \in 1..Len(DispatchesOf(sent'[c])) :
                DispatchesOf(sent'[c])[i] = <<call'[c].op, service_type'[c]>>
        /\ pc[c][1] = "dispatch" /\ pc'[c] # pc[c] =>
            /\ pc'[c] = Done
            /\ sent'[c] = sent[c]
            /\ service_type'[c] = service_type[c]
            /\ reply'.out = "error" <=> ret'[c].tag = "backend_error"
            /\ reply'.out = "ok" <=> ret'[c].tag = "ok"
    ]_vars

\* On a Ready router with both backends healthy a request failed, and the
\* call ended having sent that one request only.
C15_Witness ==
    \E c \in SeqCallers :
        /\ pc[c] = Done
        /\ ret[c].tag = "backend_error"
        /\ sent[c] = <<<<call[c].op, service_type[c]>>>>
        /\ Marked(OLLAMA)
        /\ Marked(LMSTUDIO)

\* A step in which caller c handles the answer to the list_models request
\* that a catalog refresh sent to backend number i.
RefreshAnswered(c, i) ==
    /\ pc[c][1] \in {"refresh", "lrefresh"}
    /\ pc[c][2] = i
    /\ pc'[c] # pc[c]

\* C16: when a backend's list_models() raises during a catalog refresh, the
\* backend's catalog entry becomes the empty list, the other backend's entry
\* is untouched, the call raises nothing, and an available backend that
\* comes next is still asked for its models; what that backend answers is
\* stored, one name per model.
C16_RefreshIsolatesFailure ==
    [][\A c \in SeqCallers, i \in 1..Len(Backends) :
        LET b == Backends[i]
            o == Backends[3 - i]
        IN  RefreshAnswered(c, i) =>
            /\ reply'.out = "error" =>
                /\ DictHas(service_models', b)
                /\ DictGet(service_models', b, <<"-">>) = <<>>
            /\ reply'.out = "ok" =>
                Len(DictGet(service_models', b, <<>>)) = Len(reply'.models)
            /\ SameEntry(service_models', service_models, o)
            /\ pc'[c] = Done => ret'[c].tag = "ok"
            /\ i = 1 /\ Marked(LMSTUDIO) =>
                /\ pc'[c] = <<pc[c][1], 2>>
                /\ sent'[c] = Append(sent[c], <<"list_models", LMSTUDIO>>)
    ]_vars

\* Ollama's list_models() raised: its entry is empty and LM Studio has been
\* asked for its models.
C16_Witness ==
    \E c \in SeqCallers :
        /\ pc[c][2] = 2
        /\ pc[c][1] \in {"refresh", "lrefresh"}
        /\ reply = Answer(c, "list", OLLAMA, "error", <<>>)
        /\ DictGet(service_models, OLLAMA, <<"-">>) = <<>>
        /\ sent[c][Len(sent[c])] = <<"list_models", LMSTUDIO>>

\* The positions of ':' in a name.
Colons(name) == {k \in 1..Len(name) : name[k] = ":"}

\* C17 as stated: every name of all_models() contains exactly one ':' and
\* begins with a known backend identifier followed by it.
C17_ExactlyOneColon ==
    \A i \in 1..Len(Flatten(service_models)) :
        LET name == Flatten(service_models)[i]
        IN  /\ Cardinality(Colons(name)) = 1
            /\ \E b \in BackendSet : StartsWith(name, ServiceValue(b) \o Colon)

\* C17, amended: every name in the catalog contains at least one ':', and
\* the text before the first ':' is the identifier of the backend under
\* which the catalog holds the name; what follows is the backend's own name
\* for the model and may contain ':' itself.
C17_OwnerBeforeFirstColon ==
    \A e \in 1..Len(service_models) :
        \A i \in 1..Len(service_models[e][2]) :
            LET name == service_models[e][2][i]
            IN  /\ Colons(name) # {}
                /\ \E k \in Colons(name) :
                    /\ \A j \in Colons(name) : k <= j
                    /\ SubSeq(name, 1, k - 1) = ServiceValue(service_models[e][1])

\* The catalog holds Ollama's "llama2:7b" as "ollama:llama2:7b".
C17_Witness ==
    \E i \in 1..Len(Flatten(service_models)) :
        Flatten(service_models)[i] = N_ollama \o Colon \o N_tagged

\* C18: whenever a refresh stores the models a backend returned, on the
\* first cycle or a later one, each stored name is the backend's identifier,
\* ':' and the bare name as returned, in the same order, and resolving the
\* stored name gives that backend and that bare name for every preferred
\* service.
C18_PrefixOnce ==
    [][\A c \in SeqCallers, i \in 1..Len(Backends) :
        LET b == Backends[i]
            stored == DictGet(service_models', b, <<>>)
        IN  RefreshAnswered(c, i) /\ reply'.out = "ok" =>
            /\ Len(stored) = Len(reply'.models)
            /\ \A n \in 1..Len(stored) :
                /\ stored[n] = ServiceValue(b) \o Colon \o reply'.models[n]
                /\ \A p \in LLMServiceType :
                    ParseModelName(stored[n], p, available_services')
                        = Resolved(b, reply'.models[n])
    ]_vars

\* list_models(refresh=True) on a Ready router, whose catalog initialize()
\* had filled before, has stored two names Ollama returned.
C18_Witness ==
    \E c \in SeqCallers :
        /\ call[c].op = "list_models"
        /\ sent[c] # <<>>
        /\ sent[c][1] = <<"list_models", OLLAMA>>
        /\ reply = Answer(c, "list", OLLAMA, "ok", <<N_tagged, N_community>>)
        /\ DictGet(service_models, OLLAMA, <<>>)
            = <<N_ollama \o Colon \o N_tagged, N_ollama \o Colon \o N_community>>

\* get_recommended_model() has returned to caller c.
Recommended(c) ==
    /\ pc[c] = Done
    /\ call[c].op = "get_recommended_model"
    /\ ret[c].tag = "ok"

\* C19: get_recommended_model() returns None exactly when all_models() is
\* empty, and otherwise the name of a model of the catalog.
C19_RecommendNoneIffEmpty ==
    \A c \in SeqCallers :
        Recommended(c) =>
            LET all == Flatten(service_models)
            IN  /\ ret[c].val = <<>> <=> all = <<>>
                /\ all # <<>> =>
                    /\ Len(ret[c].val) = 1
                    /\ \E i \in 1..Len(all) : all[i] = ret[c].val[1]

\* With only Ollama's "llama2:7b" in the catalog, that model is recommended.
C19_Witness ==
    \E c \in SeqCallers :
        /\ Recommended(c)
        /\ Flatten(service_models) = <<N_ollama \o Colon \o N_tagged>>
        /\ ret[c].val = <<N_ollama \o Colon \o N_tagged>>

\* C20: get_recommended_model() returns (a) the first cataloged model whose
\* name contains "lmstudio" and, in any case, "deepseek", if there is one;
\* (b) otherwise a model of the LM Studio backend, if the catalog holds one;
\* (c) otherwise the first model of all_models().
C20_LayeredFallback ==
    \A c \in SeqCallers :
        Recommended(c) /\ Flatten(service_models) # <<>> =>
            LET all == Flatten(service_models)
                owned == DictGet(service_models, LMSTUDIO, <<>>)
                deepseek == {i \in 1..Len(all) :
                                /\ Contains(all[i], N_lmstudio)
                                /\ Contains(Lower(all[i]), Lower(N_DeepSeek))}
            IN  IF deepseek # {}
                THEN \E i \in deepseek :
                        /\ \A j \in deepseek : i <= j
                        /\ ret[c].val = <<all[i]>>
                ELSE IF owned # <<>>
                THEN \E i \in 1..Len(owned) : ret[c].val = <<owned[i]>>
                ELSE ret[c].val = <<all[1]>>

\* Caller c's call went to backend b as operation op: its request is in
\* flight or has been answered.
Dispatched(c, op, b) ==
    /\ call[c].op = op
    /\ service_type[c] = b
    /\ \/ pc[c][1] = "dispatch"
       \/ pc[c] = Done /\ ret[c].tag \in {"ok", "backend_error"}

\* C21: a generate request given to the LM Studio client goes out as the one
\* request chat() sends for the same model, the same options and the single
\* message (role "user", content = the prompt), to the chat-completions
\* endpoint; and the content of the response returned is the completion
\* text of the backend's reply, unchanged.
C21_GenerateIsChat ==
    \A c \in SeqCallers :
        Dispatched(c, "generate_text", LMSTUDIO) =>
            LET k == call[c]
                one == <<ChatMessage("user", k.prompt)>>
            IN  /\ http[c] = LMStudioChat(ChatRequest(actual_name[c], one,
                                                      k.options))
                /\ http[c].endpoint = "/v1/chat/completions"
                /\ DictGet(http[c].json, "model", <<>>) = actual_name[c]
                /\ DictGet(http[c].json, "messages", <<>>)
                        = <<[role |-> "user", content |-> k.prompt]>>
                /\ DispatchesOf(sent[c]) = <<<<"generate_text", LMSTUDIO>>>>
                /\ pc[c] = Done /\ ret[c].tag = "ok" =>
                        ret[c].val.content = reply.models[1].content

\* generate_text("lmstudio:x", "hi", {"temperature": "0.2"}) has returned the
\* backend's text "hello".
C21_Witness ==
    \E c \in SeqCallers :
        /\ Dispatched(c, "generate_text", LMSTUDIO)
        /\ pc[c] = Done
        /\ call[c].prompt = "hi"
        /\ call[c].options = <<<<<<"temperature", "0.2">>>>>>
        /\ DictGet(http[c].json, "temperature", "-") = "0.2"
        /\ reply.models[1].content = "hello"
        /\ ret[c] = [tag |-> "ok", val |-> [content |-> "hello"]]

\* The keys of a dict, and the dict a call passed as options ({} for None).
Keys(d) == {d[i][1] : i \in 1..Len(d)}
OptionsOf(k) == IF k.options = <<>> THEN <<>> ELSE k.options[1]

\* The fields LMStudioClient.chat puts in every body.
BodyFields == {"model", "messages", "stream", "temperature", "max_tokens"}
AllowList == {"temperature", "max_tokens", "top_p", "frequency_penalty"}

\* C22: whatever options map reaches LMStudioClient.chat, the request is
\* sent and fails only if the backend's reply does; its body carries the
\* value of every option whose key is temperature, max_tokens, top_p or
\* frequency_penalty; it has no key other than its own fields and the
\* allow-listed keys passed; and an option outside the allow-list adds
\* nothing and changes nothing: model, messages and stream are the
\* request's own.
C22_OptionsAllowList ==
    \A c \in SeqCallers :
        ( /\ call[c].op \in {"generate_text", "chat"}
          /\ service_type[c] = LMSTUDIO
          /\ Marked(LMSTUDIO)
          /\ pc[c][1] \in {"dispatch", "done"} )
        => LET opts == OptionsOf(call[c])
               json == http[c].json
           IN  /\ http[c].endpoint = "/v1/chat/completions"
               /\ ret[c].tag \in {"-", "ok", "backend_error"}
               /\ ret[c].tag = "backend_error" => reply.out = "error"
               /\ Keys(json) = BodyFields \cup (Keys(opts) \cap AllowList)
               /\ \A i \in 1..Len(opts) :
                    IF opts[i][1] \in AllowList
                    THEN DictGet(json, opts[i][1], "-") = opts[i][2]
                    ELSE opts[i][1] \notin BodyFields =>
                            ~DictHas(json, opts[i][1])
               /\ DictGet(json, "model", <<>>) = actual_name[c]
               /\ DictGet(json, "stream", TRUE) = FALSE
               /\ "temperature" \notin Keys(opts) =>
                    DictGet(json, "temperature", "-") = "0.7"
               /\ "max_tokens" \notin Keys(opts) =>
                    DictGet(json, "max_tokens", "-") = "-1"

\* chat() was given {"unsupported_key": "1", "temperature": "0.2"}: the body
\* sent has temperature "0.2" and no unsupported_key, and the call returned.
C22_Witness ==
    \E c \in SeqCallers :
        /\ call[c].op = "chat"
        /\ service_type[c] = LMSTUDIO
        /\ pc[c] = Done
        /\ ret[c].tag = "ok"
        /\ OptionsOf(call[c])
            = <<<<"unsupported_key", "1">>, <<"temperature", "0.2">>>>
        /\ DictGet(http[c].json, "temperature", "-") = "0.2"
        /\ ~DictHas(http[c].json, "unsupported_key")

\* C23: every response generate_text or chat returns has non-empty content.
C23_SuccessHasContent ==
    \A c \in SeqCallers :
        ( /\ pc[c] = Done
          /\ call[c].op \in {"generate_text", "chat"}
          /\ ret[c].tag = "ok" )
        => ret[c].val.content # ""

\* C24: a client object creates one session: a session that a router call
\* closed is never replaced by a new one, so the calls that follow reuse the
\* session the first use opened.
C24_OneSessionPerClient ==
    [][\A b \in BackendSet, g \in Slots :
        session[b][g] = "closed" => session'[b][g] # "open"
    ]_vars

\* C25: all_models() lists Ollama's models and then LM Studio's, and that is
\* what list_models() returns.
C25_OrderedByBackend ==
    LET ordered == DictGet(service_models, OLLAMA, <<>>)
                        \o DictGet(service_models, LMSTUDIO, <<>>)
    IN  /\ Flatten(service_models) = ordered
        /\ \A c \in Callers :
                ( /\ pc[c] = Done
                  /\ call[c].op = "list_models"
                  /\ ret[c].tag = "ok" )
                => ret[c].val = ordered

\* A health snapshot with an entry for some backends only.
Torn(av) == \E b, o \in BackendSet : DictHas(av, b) /\ ~DictHas(av, o)

\* A step in which caller c reads the health snapshot without being the
\* caller that is writing it: the availability gate of generate_text and
\* chat, get_available_services, and _refresh_all_models of
\* list_models(refresh=True), which looks the next backend up each time it
\* goes on.
ReadsSnapshot(c) ==
    /\ pc'[c] # pc[c]
    /\ \/ pc[c] = <<"lrefresh", 1>>
       \/ /\ pc[c][1] \notin {"lrefresh", "dispatch"}
          /\ pc'[c][1] \in {"lrefresh", "dispatch"}
       \/ /\ pc'[c] = Done
          /\ call'[c].op \in {"generate_text", "chat",
                               "get_available_services"}
          /\ ret'[c].tag \in {"ok", "unavailable", "no_service"}
          /\ pc[c][1] # "dispatch"

\* C26: no operation reads a health snapshot that has an entry for only
\* some of the backends.
C26_NoTornSnapshot ==
    [][\A c \in Callers : ReadsSnapshot(c) => ~Torn(available_services')]_vars

\* Where a call is before it is through `if not self._initialized: await
\* self.initialize()`, and where it is once it has used the snapshot or the
\* catalog or has sent a request of its own.
BeforeGate(p) == p \in {Idle, LockWait} \/ p[1] \in {"probe", "refresh"}
PastGate(p, r) ==
    \/ p[1] \in {"dispatch", "hc", "lrefresh"}
    \/ p = Done /\ r.tag # "init_error"

\* C27: when a call of an operation that initializes on demand gets past the
\* initialisation check, whether it found the router Ready, waited for
\* another caller's initialize() or ran initialize() itself, the router is
\* Ready, no initialize() run is in progress, the health snapshot has an
\* entry for each backend and the catalog one for each backend marked
\* healthy.
C27_ReadyBeforeUse ==
    [][\A c \in Callers :
        ( /\ call'[c].op \notin {"initialize", "cleanup"}
          /\ BeforeGate(pc[c])
          /\ PastGate(pc'[c], ret'[c]) )
        => /\ initialized'
           /\ lock_holder' = 0
           /\ \A d \in Callers : pc'[d][1] \notin {"probe", "refresh"}
           /\ \A b \in BackendSet :
                /\ DictHas(available_services', b)
                /\ MarkedIn(available_services', b) =>
                        DictHas(service_models', b)
    ]_vars

\* A call of an operation other than initialize and cleanup was made while
\* another caller's initialize() was refreshing the catalog: it waits for
\* the lock and has sent nothing.
C27_Witness ==
    \E c, d \in Callers :
        /\ pc[c] = LockWait
        /\ call[c].op \notin {"initialize", "cleanup"}
        /\ sent[c] = <<>>
        /\ lock_holder = d
        /\ pc[d][1] = "refresh"
        /\ ~initialized

\* Caller c has a request to client object g of backend b in flight.
InFlight(c, b, g) ==
    \/ Holds(Cur, c, b, g)
    \/ /\ pc[c][1] \in {"probe", "refresh"}
       /\ Backends[pc[c][2]] = b
       /\ client[b] = g

\* C28: the session of a client with a request in flight is open.
C28_InFlightSessionOpen ==
    \A c \in Callers, b \in BackendSet, g \in Slots :
        InFlight(c, b, g) => session[b][g] = "open"

\* C29: while the router is uninitialized and no initialize() is running,
\* its catalog holds no model and its health snapshot is empty.
C29_UninitializedIsEmpty ==
    ~initialized /\ lock_holder = 0 =>
        Flatten(service_models) = <<>> /\ available_services = <<>>

\* C30: the lock is never requested by the caller that holds it, and every
\* call that was started completes: its caller gets its result or its error.
C30_NoSelfDeadlock ==
    /\ [](\A c \in Callers :
            /\ lock_holder = c => pc[c] # LockWait
            /\ \A i \in 1..Len(lock_waiters) : lock_waiters[i] # lock_holder)
    /\ \A c \in Callers : (pc[c] # Idle) ~> (pc[c] = Done)

\* The call that held the lock has completed and released it, and the lock
\* goes to the cleanup() that waited for it behind that call.
C30_Witness ==
    \E c, d \in Callers :
        /\ pc[d] = Done
        /\ sent[d] # <<>>
        /\ lock_holder = 0
        /\ lock_waiters = <<c>>
        /\ pc[c] = LockWait
        /\ call[c].op = "cleanup"

====
